---- MODULE Spec2Model ----
(***************************************************************************)
(* A model of the per-frame compositing pipeline of process_frames.py and  *)
(* of the batch driver of generate_gif.py.                                 *)
(*                                                                         *)
(*   Spec        one run of process_frame, stage by stage                  *)
(*   SpecDilate  one call of dilate_mask, pass by pass                     *)
(*   SpecShade   one call of extract_shading_map                           *)
(*   SpecBatch   one call of generate_dancing_gif                          *)
(*   SpecPar     two concurrent runs of process_frame in one directory     *)
(*                                                                         *)
(* Images are functions from pixel positions to [r, g, b, a] records,      *)
(* masks are functions from pixel positions to 0..255, a shading map is a  *)
(* function from pixel positions to exact fractions [n, d] (n/d).  The     *)
(* luminance 0.299 r + 0.587 g + 0.114 b is kept exactly, scaled by 1000;  *)
(* numpy computes it in float32, whose rounding is far below the 0.001     *)
(* that separates two different exact luminances.                          *)
(***************************************************************************)
EXTENDS Integers, Sequences, FiniteSets, TLC

(* ---------------------------- bounds ----------------------------------- *)

\* Frames and masks are Dim x Dim pixel grids.
Dim == 6

\* Iterations of dilate_mask explored one by one in SpecDilate.
MaxIter == 4

\* Calls of remove_green_screen made in a row on one image in SpecKey.
MaxPasses == 2

(* ------------------------ program constants ---------------------------- *)

\* dilate_mask: a neighbour counts when its value is above this.
NoiseThreshold == 4

\* The member value dilate_mask and the classifiers write.
Member == 255

\* create_yellow_mask: dilate_mask(mask, iterations=4).
YellowIterations == 4

\* extract_black_lines: r, g, b all below this.
BlackThreshold == 140

\* mask_array > 128: the membership test of every consumer of a mask.
MaskThreshold == 128

\* remove_green_screen: the default threshold.
GreenThreshold == 100

\* generate_dancing_gif: the six entries of frame_files.
NumFrames == 6

(* --------------------------- pixels ------------------------------------ *)

Coord == 0 .. (Dim - 1)

Pos == Coord \X Coord

Px(r, g, b, a) == [r |-> r, g |-> g, b |-> b, a |-> a]

\* Colours of the source frames: the end-to-end scenario's fill, border and
\* background, the prototypical fill colour, the light end of the fill range,
\* and an antialiased edge pixel blending fill and background.
FillColour == Px(230, 170, 50, 255)

BorderColour == Px(10, 10, 10, 255)

BackgroundColour == Px(22, 187, 0, 255)

ProtoFillColour == Px(200, 150, 40, 255)

LightFillColour == Px(255, 230, 120, 255)

EdgeColour == Px(126, 178, 25, 255)

Abs(i) == IF i < 0 THEN -i ELSE i

Max2(a, b) == IF a > b THEN a ELSE b

Manhattan(p, q) == Abs(p[1] - q[1]) + Abs(p[2] - q[2])

Chebyshev(p, q) == Max2(Abs(p[1] - q[1]), Abs(p[2] - q[2]))

\* np.array(...) / .copy(): the array is built once, element by element.
\* f @@ <<>> is f; it makes TLC build the function instead of re-evaluating
\* its defining expression at every later use.
Array(f) == f @@ <<>>

(* ------------------------ dilate_mask ---------------------------------- *)

\* range(1, h - 1) x range(1, w - 1): the outermost ring is never written.
Interior(p) ==
    /\ p[1] >= 1 /\ p[1] <= Dim - 2
    /\ p[2] >= 1 /\ p[2] <= Dim - 2

\* result[y - 1 : y + 2, x - 1 : x + 2]: the 3x3 window around p, p included.
Neighborhood(p) == {q \in Pos : Chebyshev(p, q) <= 1}

\* A window one pixel too wide on every side (result[y - 2 : y + 3, ...]).
DilateOnce_Wide(m) ==
    Array([p \in Pos |->
        IF Interior(p) /\ \E q \in Pos : Chebyshev(p, q) <= 2 /\ m[q] > NoiseThreshold
        THEN Member ELSE m[p]])

\* A pass that starts from an empty array instead of result.copy().
DilateOnce_Fresh(m) ==
    Array([p \in Pos |->
        IF Interior(p) /\ \E q \in Neighborhood(p) : m[q] > NoiseThreshold
        THEN Member ELSE 0])

\* One pass of the loop body: every interior pixel with a window value above
\* the noise threshold becomes a member, the rest is copied.
DilateOnce(m) ==
    Array([p \in Pos |->
        IF Interior(p) /\ \E q \in Neighborhood(p) : m[q] > NoiseThreshold
        THEN Member ELSE m[p]])

RECURSIVE dilate_mask(_, _)
dilate_mask(mask, iterations) ==
    IF iterations = 0 THEN mask
    ELSE dilate_mask(DilateOnce(mask), iterations - 1)

(* --------------------- extract_black_lines ----------------------------- *)

\* A threshold test joined with "or" instead of "and".
IsBlack_Any(px) == px.r < BlackThreshold \/ px.g < BlackThreshold \/ px.b < BlackThreshold

IsBlack(px) == px.r < BlackThreshold /\ px.g < BlackThreshold /\ px.b < BlackThreshold

extract_black_lines(img) ==
    Array([p \in Pos |-> IF IsBlack(img[p]) THEN Member ELSE 0])

(* ---------------------- create_yellow_mask ----------------------------- *)

\* A green threshold raised to 150.
IsYellow_Strict(px) ==
    /\ px.r > 180
    /\ px.g > 150
    /\ px.b < 150
    /\ px.r > px.b
    /\ px.g > px.b

\* Fill thresholds with the red threshold 80 in place of 180.
IsYellow_Loose(px) ==
    /\ px.r > 80
    /\ px.g > 120
    /\ px.b < 150
    /\ px.r > px.b
    /\ px.g > px.b

IsYellow(px) ==
    /\ px.r > 180
    /\ px.g > 120
    /\ px.b < 150
    /\ px.r > px.b
    /\ px.g > px.b

\* The mask before dilation (mask[yellow_mask] = 255).
yellow_mask(img) == Array([p \in Pos |-> IF IsYellow(img[p]) THEN Member ELSE 0])

create_yellow_mask(img) == dilate_mask(yellow_mask(img), YellowIterations)

(* ---------------------- remove_green_screen ---------------------------- *)

\* The channels are widened to int16 before comparing, so g > r + 30 is the
\* comparison of integers.
\* The standard predicate computed in 8 bits, where r + 30 and b + 30 wrap.
IsGreenStandard_Wrap(px) ==
    /\ px.g > GreenThreshold
    /\ px.g > (px.r + 30) % 256
    /\ px.g > (px.b + 30) % 256
    /\ px.r < 100

IsGreenStandard(px) ==
    /\ px.g > GreenThreshold
    /\ px.g > px.r + 30
    /\ px.g > px.b + 30
    /\ px.r < 100

\* An aggressive predicate that asks for a wider margin than the standard one.
IsGreenAggressive_Margin(px) ==
    /\ px.g > 100
    /\ px.g > px.r + 40
    /\ px.g > px.b + 40

IsGreenAggressive(px) ==
    /\ px.g > 100
    /\ px.g > px.r
    /\ px.g > px.b

remove_green_screen(img, aggressive) ==
    Array([p \in Pos |->
        IF (IF aggressive THEN IsGreenAggressive(img[p]) ELSE IsGreenStandard(img[p]))
        THEN [img[p] EXCEPT !.a = 0] ELSE img[p]])

(* ---------------------- extract_shading_map ---------------------------- *)

\* 1000 * (0.299 r + 0.587 g + 0.114 b).
Luminance(px) == 299 * px.r + 587 * px.g + 114 * px.b

RECURSIVE Gcd(_, _)
Gcd(a, b) == IF b = 0 THEN a ELSE Gcd(b, a % b)

\* The fraction n/d (n >= 0, d > 0) in lowest terms.
Frac(n, d) == LET k == Gcd(n, d) IN [n |-> n \div k, d |-> d \div k]

Zero == [n |-> 0, d |-> 1]

One == [n |-> 1, d |-> 1]

\* The floor of the clamp: 0.4.
ClipLow == [n |-> 2, d |-> 5]

FracLess(f, g) == f.n * g.d < g.n * f.d

FracLeq(f, g) == f.n * g.d <= g.n * f.d

\* np.clip(x, 0.4, 1.0).
Clip(f) == IF FracLess(f, ClipLow) THEN ClipLow ELSE IF FracLess(One, f) THEN One ELSE f

MaskBool(mask) == {p \in Pos : mask[p] > MaskThreshold}

SetMax(S) == CHOOSE x \in S : \A y \in S : y <= x

SetMin(S) == CHOOSE x \in S : \A y \in S : x <= y

\* A shading map normalised the wrong way round: dark areas = 1.0.
extract_shading_map_Inverted(base_img, mask) ==
    LET mask_bool == MaskBool(mask)
        lums == {Luminance(base_img[p]) : p \in mask_bool}
    IN  IF mask_bool # {}
        THEN LET max_luminance == SetMax(lums)
                 min_luminance == SetMin(lums)
             IN  Array([p \in Pos |->
                     IF p \in mask_bool
                     THEN IF max_luminance > min_luminance
                          THEN Clip(Frac(max_luminance - Luminance(base_img[p]),
                                         max_luminance - min_luminance))
                          ELSE One
                     ELSE Zero])
        ELSE Array([p \in Pos |-> One])

\* shading_map = np.zeros_like(luminance); only the masked entries are then
\* assigned, so with a non-empty mask every unmasked entry stays 0.0.
extract_shading_map(base_img, mask) ==
    LET mask_bool == MaskBool(mask)
        lums == {Luminance(base_img[p]) : p \in mask_bool}
    IN  IF mask_bool # {}
        THEN LET max_luminance == SetMax(lums)
                 min_luminance == SetMin(lums)
             IN  Array([p \in Pos |->
                     IF p \in mask_bool
                     THEN IF max_luminance > min_luminance
                          THEN Clip(Frac(Luminance(base_img[p]) - min_luminance,
                                         max_luminance - min_luminance))
                          ELSE One
                     ELSE Zero])
        ELSE Array([p \in Pos |-> One])

(* -------------------- convert_shading_to_uint8 ------------------------- *)

\* The floor of np.clip(uint8_shading, 102, 255).
ShadeFloor == 102

\* (shading_array - 0.4) / 0.6 * 255 for the fraction v = n/d, which is
\* (5n - 2d) * 85 / d, truncated toward zero as astype does.
Scaled(v) ==
    LET num == (5 * v.n - 2 * v.d) * 85
    IN  IF num >= 0 THEN num \div v.d ELSE 0 - ((0 - num) \div v.d)

\* .astype(np.uint8) of the truncated value.  The cast of a negative float is
\* undefined: the build either wraps it modulo 256 or gives 0.
AsUint8(x, wraps) == IF x >= 0 \/ wraps THEN x % 256 ELSE 0

ClipByte(b) == IF b < ShadeFloor THEN ShadeFloor ELSE IF b > 255 THEN 255 ELSE b

convert_shading_to_uint8(shading_map, wraps) ==
    Array([p \in Pos |-> ClipByte(AsUint8(Scaled(shading_map[p]), wraps))])

(* --------------------- apply_texture_to_mask --------------------------- *)

\* A texture is a solid colour of some size: [size, colour].  Resizing a solid
\* colour with LANCZOS gives the same solid colour at the base image's size,
\* and convert("RGBA") gives it alpha 255.
TextureArray(texture_img) ==
    [p \in Pos |-> Px(texture_img.colour.r, texture_img.colour.g, texture_img.colour.b, 255)]

\* (channel * shading).astype(np.uint8): the product truncated.
Shade(channel, s) == (channel * s.n) \div s.d

\* A composite that takes the alpha of the texture along with its colour.
apply_texture_to_mask_TextureAlpha(base_img, texture_img, mask, original_img) ==
    LET texture_array == TextureArray(texture_img)
        shading_map == extract_shading_map(original_img, mask)
        mask_bool == MaskBool(mask)
    IN  Array([p \in Pos |->
            IF p \in mask_bool
            THEN Px(Shade(texture_array[p].r, shading_map[p]),
                    Shade(texture_array[p].g, shading_map[p]),
                    Shade(texture_array[p].b, shading_map[p]),
                    texture_array[p].a)
            ELSE base_img[p]])

apply_texture_to_mask(base_img, texture_img, mask, original_img) ==
    LET texture_array == TextureArray(texture_img)
        shading_map == extract_shading_map(original_img, mask)
        mask_bool == MaskBool(mask)
    IN  Array([p \in Pos |->
            IF p \in mask_bool
            THEN Px(Shade(texture_array[p].r, shading_map[p]),
                    Shade(texture_array[p].g, shading_map[p]),
                    Shade(texture_array[p].b, shading_map[p]),
                    base_img[p].a)
            ELSE base_img[p]])

(* ---------------------- overlay_black_lines ---------------------------- *)

\* An overlay that darkens the outline by half instead of painting it black.
overlay_black_lines_Darken(base_img, line_mask) ==
    Array([p \in Pos |->
        IF line_mask[p] > MaskThreshold
        THEN Px(base_img[p].r \div 2, base_img[p].g \div 2, base_img[p].b \div 2,
                base_img[p].a)
        ELSE base_img[p]])

\* An overlay that paints the outline opaque.
overlay_black_lines_Opaque(base_img, line_mask) ==
    Array([p \in Pos |->
        IF line_mask[p] > MaskThreshold
        THEN Px(0, 0, 0, 255)
        ELSE base_img[p]])

overlay_black_lines(base_img, line_mask) ==
    Array([p \in Pos |->
        IF line_mask[p] > MaskThreshold
        THEN [base_img[p] EXCEPT !.r = 0, !.g = 0, !.b = 0]
        ELSE base_img[p]])

\* result.resize((128, 128), LANCZOS): a resampled image, kept as the image it
\* was resampled from and its new size.
Resize128(img) == [size |-> 128, of |-> img]


(* ======================== process_frame ================================ *)

VARIABLES
    pc,              \* the position of the run of process_frame
    frame_status,    \* "ok", or "bad": frame_path names no readable image
    frame,           \* the source image
    texture_status,  \* "none" (no path), "missing" (no such file),
                     \* "malformed" (a file that is no image), "ok"
    texture_file,    \* the image texture_path names, when it names one
    texture,         \* the texture image, once opened
    mask,            \* create_yellow_mask(frame)
    line_mask,       \* extract_black_lines(frame)
    frame_no_green,  \* remove_green_screen(frame)
    result,          \* the image handed from stage to stage
    result_128,      \* the resized result
    files,           \* the files written so far: name -> content
    trace,           \* the positions reached, in order
    chain            \* the image stages run: <<stage, input, output>>

pvars == <<pc, frame_status, frame, texture_status, texture_file, texture, mask, line_mask,
           frame_no_green, result, result_128, files, trace, chain>>

\* One call of dilate_mask, iteration by iteration.
VARIABLES
    d_mask,          \* the mask passed in
    d_iterations,    \* the iterations passed in
    d_result,        \* result, after d_k passes of the loop
    d_k,             \* the passes of the loop done
    d_pc             \* "idle", "loop", "returned"

dvars == <<d_mask, d_iterations, d_result, d_k, d_pc>>

\* One call of extract_shading_map.
VARIABLES
    s_img,           \* base_img
    s_mask,          \* mask
    s_map,           \* the shading map returned, None before the call
    s_u8             \* convert_shading_to_uint8 of it, None before that call

svars == <<s_img, s_mask, s_map, s_u8>>

\* One call of generate_dancing_gif.
VARIABLES
    g_pc,            \* "idle", "process", "cleanup", "save", "done", "raised"
    g_i,             \* the index of the frame the loop is at (1 .. NumFrames)
    g_bad,           \* the frames whose process_frame raises
    g_processed,     \* processed_frames
    g_files          \* the files of the working directory

gvars == <<g_pc, g_i, g_bad, g_processed, g_files>>

\* Two runs of process_frame, with generate_dancing_gif's file naming and
\* clean-up, executing concurrently in one working directory.
VARIABLES
    c_run,           \* run -> [batch, i, pc]
    c_files,         \* the files of the working directory: name -> content
    c_touched        \* run -> the files it has written or deleted

cvars == <<c_run, c_files, c_touched>>

\* Calls of the classifiers and of remove_green_screen on one image.
VARIABLES
    k_src,           \* the image
    k_ops,           \* the aggressive flag of each remove_green_screen call made
    k_out,           \* the image each of those calls returned
    k_fill,          \* create_yellow_mask(k_src), None before the call
    k_lines          \* extract_black_lines(k_src), None before the call

kvars == <<k_src, k_ops, k_out, k_fill, k_lines>>

vars == <<pvars, dvars, svars, gvars, cvars, kvars>>

None == <<>>

IdleFrame ==
    /\ pc = "idle" /\ frame_status = None /\ frame = None /\ texture_status = None
    /\ texture_file = None /\ texture = None /\ mask = None /\ line_mask = None
    /\ frame_no_green = None /\ result = None /\ result_128 = None
    /\ files = None /\ trace = None /\ chain = None

IdleDilate ==
    d_mask = None /\ d_iterations = 0 /\ d_result = None /\ d_k = 0 /\ d_pc = "idle"

IdleShade == s_img = None /\ s_mask = None /\ s_map = None /\ s_u8 = None

IdleBatch ==
    g_pc = "idle" /\ g_i = 0 /\ g_bad = {} /\ g_processed = None /\ g_files = None

IdlePar == c_run = None /\ c_files = None /\ c_touched = None

IdleKey ==
    k_src = None /\ k_ops = None /\ k_out = None /\ k_fill = None /\ k_lines = None

NoFiles == <<>>

\* output_path and output_path.replace(".png", "_mask.png").
OutputPath == "out.png"

MaskOutput == "out_mask.png"

WriteFile(fs, name, content) ==
    [n \in DOMAIN fs \cup {name} |-> IF n = name THEN content ELSE fs[n]]

(* ------------------------- the source frames --------------------------- *)

\* A frame is a block of one colour, a 1-pixel ring of a second colour around
\* it, and a third colour outside; the ring lies inside the image.
Blocks ==
    {b \in [x0 : Coord, x1 : Coord, y0 : Coord, y1 : Coord] :
        /\ 1 <= b.x0 /\ b.x0 <= b.x1 /\ b.x1 <= Dim - 2
        /\ 1 <= b.y0 /\ b.y0 <= b.y1 /\ b.y1 <= Dim - 2}

InBlock(b, p) == b.x0 <= p[1] /\ p[1] <= b.x1 /\ b.y0 <= p[2] /\ p[2] <= b.y1

InRing(b, p) ==
    /\ ~InBlock(b, p)
    /\ b.x0 - 1 <= p[1] /\ p[1] <= b.x1 + 1
    /\ b.y0 - 1 <= p[2] /\ p[2] <= b.y1 + 1

Scene(b, c) ==
    [p \in Pos |-> IF InBlock(b, p) THEN c[1] ELSE IF InRing(b, p) THEN c[2] ELSE c[3]]

\* A half-transparent dark pixel of an RGBA source frame.
ShadowColour == Px(40, 40, 40, 128)

\* <<block, ring, outside>>: the end-to-end scenario; the prototypical fill
\* straight on the background; a shaded fill; an antialiased edge; no fill;
\* a fill with a half-transparent outline.
ScenarioColours == <<FillColour, BorderColour, BackgroundColour>>

Colourings ==
    { ScenarioColours,
      <<ProtoFillColour, BackgroundColour, BackgroundColour>>,
      <<LightFillColour, FillColour, BackgroundColour>>,
      <<FillColour, EdgeColour, BackgroundColour>>,
      <<BorderColour, BackgroundColour, BackgroundColour>>,
      <<LightFillColour, ShadowColour, BackgroundColour>> }

Frames == {Scene(b, c) : b \in Blocks, c \in Colourings}

ScenarioFrames == {Scene(b, ScenarioColours) : b \in Blocks}

Red == Px(255, 0, 0, 255)

Orange == Px(255, 140, 0, 255)

Green == Px(0, 255, 0, 255)

\* Solid textures: the scenario's red, the orange of create_test_texture, and
\* a green one.
Textures == {[size |-> 480, colour |-> c] : c \in {Red, Orange, Green}}

(* --------------------------- the run ----------------------------------- *)

Init ==
    /\ pc = "Start"
    /\ frame_status \in {"ok", "bad"}
    /\ frame \in Frames
    /\ texture_status \in {"none", "missing", "malformed", "ok"}
    /\ texture_file \in (IF texture_status = "ok" THEN Textures ELSE {None})
    /\ texture = None
    /\ mask = None
    /\ line_mask = None
    /\ frame_no_green = None
    /\ result = None
    /\ result_128 = None
    /\ files = NoFiles
    /\ trace = <<>>
    /\ chain = <<>>
    /\ IdleDilate /\ IdleShade /\ IdleBatch /\ IdlePar /\ IdleKey

Goto(p) == pc' = p /\ trace' = Append(trace, p)

Fail == Goto("Failed")

\* frame = Image.open(frame_path)
Load ==
    /\ pc = "Start"
    /\ IF frame_status = "ok"
       THEN Goto("Loaded") /\ chain' = <<<<"Loaded", None, frame>>>>
       ELSE Fail /\ UNCHANGED chain
    /\ UNCHANGED <<frame_status, frame, texture_status, texture_file, texture, mask, line_mask,
                   frame_no_green, result, result_128, files>>
    /\ UNCHANGED <<dvars, svars, gvars, cvars, kvars>>

\* mask = create_yellow_mask(frame); line_mask = extract_black_lines(frame)
Classify ==
    /\ pc = "Loaded"
    /\ mask' = create_yellow_mask(frame)
    /\ line_mask' = extract_black_lines(frame)
    /\ Goto("Masked")
    /\ UNCHANGED <<frame_status, frame, texture_status, texture_file, texture, frame_no_green,
                   result, result_128, files, chain>>
    /\ UNCHANGED <<dvars, svars, gvars, cvars, kvars>>

\* mask.save(mask_output): the file is written, or the save raises.
SaveMask ==
    /\ pc = "Masked"
    /\ \/ files' = WriteFile(files, MaskOutput, mask) /\ Goto("MaskSaved")
       \/ Fail /\ UNCHANGED files
    /\ UNCHANGED <<frame_status, frame, texture_status, texture_file, texture, mask, line_mask,
                   frame_no_green, result, result_128, chain>>
    /\ UNCHANGED <<dvars, svars, gvars, cvars, kvars>>

\* frame_no_green = remove_green_screen(frame)
RemoveGreen ==
    /\ pc = "MaskSaved"
    /\ frame_no_green' = remove_green_screen(frame, FALSE)
    /\ result' = frame_no_green'
    /\ chain' = Append(chain, <<"BackgroundRemoved1", frame, frame_no_green'>>)
    /\ Goto("BackgroundRemoved1")
    /\ UNCHANGED <<frame_status, frame, texture_status, texture_file, texture, mask, line_mask,
                   result_128, files>>
    /\ UNCHANGED <<dvars, svars, gvars, cvars, kvars>>

\* if texture_path and os.path.exists(texture_path)
TextureBranch == texture_status \in {"malformed", "ok"}

\* texture = Image.open(texture_path); result = apply_texture_to_mask(...)
Composite ==
    /\ pc = "BackgroundRemoved1"
    /\ TextureBranch
    /\ IF texture_status = "ok"
       THEN /\ texture' = texture_file
            /\ result' = apply_texture_to_mask(frame_no_green, texture', mask, frame)
            /\ chain' = Append(chain, <<"TextureComposited", frame_no_green, result'>>)
            /\ Goto("TextureComposited")
       ELSE Fail /\ UNCHANGED <<texture, result, chain>>
    /\ UNCHANGED <<frame_status, frame, texture_status, texture_file, mask, line_mask,
                   frame_no_green, result_128, files>>
    /\ UNCHANGED <<dvars, svars, gvars, cvars, kvars>>

\* A second pass that keys the source frame instead of the composited result.
RemoveGreenAggressive_OnFrame ==
    /\ pc = "TextureComposited"
    /\ result' = remove_green_screen(frame, TRUE)
    /\ chain' = Append(chain, <<"BackgroundRemoved2", frame, result'>>)
    /\ Goto("BackgroundRemoved2")
    /\ UNCHANGED <<frame_status, frame, texture_status, texture_file, texture, mask, line_mask,
                   frame_no_green, result_128, files>>
    /\ UNCHANGED <<dvars, svars, gvars, cvars, kvars>>

\* result = remove_green_screen(result, aggressive=True)
RemoveGreenAggressive ==
    /\ pc = "TextureComposited"
    /\ result' = remove_green_screen(result, TRUE)
    /\ chain' = Append(chain, <<"BackgroundRemoved2", result, result'>>)
    /\ Goto("BackgroundRemoved2")
    /\ UNCHANGED <<frame_status, frame, texture_status, texture_file, texture, mask, line_mask,
                   frame_no_green, result_128, files>>
    /\ UNCHANGED <<dvars, svars, gvars, cvars, kvars>>

\* result = overlay_black_lines(result, line_mask), after either branch
\* (else: result = frame_no_green).
Overlay ==
    /\ \/ pc = "BackgroundRemoved2"
       \/ pc = "BackgroundRemoved1" /\ ~TextureBranch
    /\ result' = overlay_black_lines(result, line_mask)
    /\ chain' = Append(chain, <<"OutlineOverlaid", result, result'>>)
    /\ Goto("OutlineOverlaid")
    /\ UNCHANGED <<frame_status, frame, texture_status, texture_file, texture, mask, line_mask,
                   frame_no_green, result_128, files>>
    /\ UNCHANGED <<dvars, svars, gvars, cvars, kvars>>

\* result_128 = result.resize((128, 128), Image.Resampling.LANCZOS)
Resize ==
    /\ pc = "OutlineOverlaid"
    /\ result_128' = Resize128(result)
    /\ chain' = Append(chain, <<"Resized", result, result_128'>>)
    /\ Goto("Resized")
    /\ UNCHANGED <<frame_status, frame, texture_status, texture_file, texture, mask, line_mask,
                   frame_no_green, result, files>>
    /\ UNCHANGED <<dvars, svars, gvars, cvars, kvars>>

\* result_128.save(output_path): the file is written, or the save raises.
Save ==
    /\ pc = "Resized"
    /\ \/ /\ files' = WriteFile(files, OutputPath, result_128)
          /\ chain' = Append(chain, <<"Emitted", result_128, files'[OutputPath]>>)
          /\ Goto("Emitted")
       \/ Fail /\ UNCHANGED <<files, chain>>
    /\ UNCHANGED <<frame_status, frame, texture_status, texture_file, texture, mask, line_mask,
                   frame_no_green, result, result_128>>
    /\ UNCHANGED <<dvars, svars, gvars, cvars, kvars>>

Next ==
    \/ Load
    \/ Classify
    \/ SaveMask
    \/ RemoveGreen
    \/ Composite
    \/ RemoveGreenAggressive
    \/ Overlay
    \/ Resize
    \/ Save

Spec == Init /\ [][Next]_vars

(* ------------------- claims about process_frame ------------------------ *)

IsPrefix(s, t) == Len(s) <= Len(t) /\ \A i \in 1 .. Len(s) : s[i] = t[i]

Reached(p) == \E i \in 1 .. Len(trace) : trace[i] = p

Rgb(px) == <<px.r, px.g, px.b>>

\* The positions of a run that composites a texture; "Masked" and "MaskSaved"
\* together are the stage FillMasked+OutlineMasked.
TexturedStages ==
    <<"Loaded", "Masked", "MaskSaved", "BackgroundRemoved1", "TextureComposited",
      "BackgroundRemoved2", "OutlineOverlaid", "Resized", "Emitted">>

\* The stages that take and hand on the image, in the order of TexturedStages
\* (FillMasked+OutlineMasked reads the loaded frame and hands on the two masks).
TexturedImageStages ==
    <<"Loaded", "BackgroundRemoved1", "TextureComposited", "BackgroundRemoved2",
      "OutlineOverlaid", "Resized", "Emitted">>

\* C1: in a run that takes the texture branch, the positions reached are the
\* stages Loaded, FillMasked+OutlineMasked, BackgroundRemoved(pass 1),
\* TextureComposited, BackgroundRemoved(pass 2), OutlineOverlaid, Resized,
\* Emitted in that order, none twice (a run that fails stops after a prefix of
\* them), and each image stage's input is the output of the one before it.
C1_StagesInOrder ==
    TextureBranch =>
        /\ \/ IsPrefix(trace, TexturedStages)
           \/ /\ trace # <<>>
              /\ trace[Len(trace)] = "Failed"
              /\ IsPrefix(SubSeq(trace, 1, Len(trace) - 1), TexturedStages)
        /\ pc = "Emitted" => trace = TexturedStages
        /\ Len(chain) <= Len(TexturedImageStages)
        /\ \A i \in 1 .. Len(chain) : chain[i][1] = TexturedImageStages[i]
        /\ \A i \in 2 .. Len(chain) : chain[i][2] = chain[i - 1][3]
        /\ chain # <<>> /\ pc \notin {"Resized", "Emitted", "Failed"} =>
               chain[Len(chain)][3] = IF result = None THEN frame ELSE result

C1_Witness ==
    /\ pc = "Emitted"
    /\ texture_status = "ok"
    /\ Len(chain) = 7
    /\ chain[3][3] # chain[3][2]
    /\ chain[4][3] # chain[4][2]

\* C2: in a run that does not take the texture branch, texture compositing and
\* the aggressive pass never run, the image before the final resize is
\* overlay_black_lines(remove_green_screen(frame), extract_black_lines(frame)),
\* and every pixel whose source colour satisfies the fill thresholds keeps its
\* source RGB.
C2_NoTexture ==
    ~TextureBranch =>
        /\ ~Reached("TextureComposited")
        /\ ~Reached("BackgroundRemoved2")
        /\ Reached("OutlineOverlaid") =>
              /\ result = overlay_black_lines(remove_green_screen(frame, FALSE),
                                              extract_black_lines(frame))
              /\ \A p \in Pos : IsYellow(frame[p]) => Rgb(result[p]) = Rgb(frame[p])

C2_Witness ==
    /\ texture_status = "none"
    /\ pc = "Resized"
    /\ \E p \in Pos : IsYellow(frame[p])
    /\ \E p \in Pos : result[p] # frame[p]

\* C3: a run that ends in failure has written no file, neither the result
\* image nor the mask image.
C3_NoPartialEmission == pc = "Failed" => DOMAIN files = {}

\* C4: a run whose texture path names no existing file ends in failure and
\* emits no output image.
C4_MissingTextureFails ==
    texture_status = "missing" => pc # "Emitted" /\ OutputPath \notin DOMAIN files

\* The shading value the compositor uses for the frame and its mask.
UsedShading == extract_shading_map(frame, mask)

InScenario ==
    /\ frame \in ScenarioFrames
    /\ texture_status = "ok"
    /\ texture_file.colour = Red
    /\ pc = "TextureComposited"

\* C8 as stated: in the end-to-end scenario the shading is 1.0 at every pixel
\* of the fill mask handed to the compositor, and every pixel of that mask
\* receives exactly (255, 0, 0).
C8_ShadingOneOnMask ==
    InScenario =>
        \A p \in MaskBool(mask) :
            UsedShading[p] = One /\ Rgb(result[p]) = <<255, 0, 0>>

\* C8 amended: in the end-to-end scenario the shading is 1.0 at every pixel
\* whose source colour is the fill colour (all of them are in the mask), and
\* each receives exactly (255, 0, 0); a mask pixel added by dilation (a border
\* or background pixel) has a shading in [0.4, 1.0) and receives a darkened
\* texture colour.
C8_ShadingOneOnFill ==
    InScenario =>
        \A p \in Pos :
            /\ frame[p] = FillColour =>
                  /\ p \in MaskBool(mask)
                  /\ UsedShading[p] = One
                  /\ Rgb(result[p]) = <<255, 0, 0>>
            /\ p \in MaskBool(mask) /\ frame[p] # FillColour =>
                  /\ FracLeq(ClipLow, UsedShading[p])
                  /\ FracLess(UsedShading[p], One)
                  /\ result[p].r < 255

C8_Witness ==
    /\ InScenario
    /\ \E p \in MaskBool(mask) : frame[p] = FillColour
    /\ \E p \in MaskBool(mask) : frame[p] = BorderColour /\ UsedShading[p] = ClipLow
    /\ \E p \in MaskBool(mask) : frame[p] = BackgroundColour

C13_AlphaPreserved ==
    pc = "TextureComposited" =>
        \A p \in Pos : result[p].a = frame_no_green[p].a

\* A composite that recoloured a half-transparent pixel and a keyed-out pixel
\* of the mask, with an opaque pixel left outside the mask.
C13_Witness ==
    /\ pc = "TextureComposited"
    /\ \E p \in MaskBool(mask) :
          /\ frame_no_green[p].a = 128
          /\ Rgb(result[p]) # Rgb(frame_no_green[p])
    /\ \E p \in MaskBool(mask) :
          /\ frame_no_green[p].a = 0
          /\ Rgb(result[p]) # Rgb(frame_no_green[p])
    /\ \E p \in Pos \ MaskBool(mask) : result[p] = frame_no_green[p]

\* The image the outline was drawn on: the output of the stage before
\* OutlineOverlaid.
BeforeOverlay == chain[Len(chain) - 1][3]

\* C15: in the image handed to the resize, with or without a texture, every
\* pixel whose source r, g and b are all below 140 has RGB (0, 0, 0) and the
\* alpha that the stages before the overlay left it.
C15_OutlineWins ==
    pc = "OutlineOverlaid" =>
        \A p \in Pos :
            (frame[p].r < 140 /\ frame[p].g < 140 /\ frame[p].b < 140) =>
                /\ Rgb(result[p]) = <<0, 0, 0>>
                /\ result[p].a = BeforeOverlay[p].a

\* An outline that was drawn over the shaded texture, inside the fill mask, on
\* a half-transparent pixel.
C15_Witness ==
    /\ pc = "OutlineOverlaid"
    /\ texture_status = "ok"
    /\ \E p \in MaskBool(mask) :
          /\ IsBlack(frame[p])
          /\ Rgb(BeforeOverlay[p]) # <<0, 0, 0>>
          /\ Rgb(BeforeOverlay[p]) # Rgb(frame[p])
          /\ BeforeOverlay[p].a = 128
          /\ result[p] = Px(0, 0, 0, 128)

\* C16: drawing the outline twice with the same mask gives what drawing it
\* once gives: for the image of the run and its outline mask, and for the
\* run's other images and its fill mask used as the mask.
C16_OverlayIdempotent ==
    pc = "OutlineOverlaid" =>
        /\ overlay_black_lines(result, line_mask) = result
        /\ \A img \in {frame, frame_no_green, BeforeOverlay} :
              \A m \in {line_mask, mask} :
                  overlay_black_lines(overlay_black_lines(img, m), m)
                      = overlay_black_lines(img, m)

\* An overlay that changed the image it was given.
C16_Witness ==
    /\ pc = "OutlineOverlaid"
    /\ result # BeforeOverlay
    /\ overlay_black_lines(frame, mask) # frame
    /\ \E p \in Pos : line_mask[p] > MaskThreshold /\ Rgb(BeforeOverlay[p]) # <<0, 0, 0>>

\* C17: the aggressive second pass sets the alpha of no pixel of the fill mask
\* to 0, whatever the source frame and the texture.
C17_FillSurvivesSecondPass ==
    pc = "BackgroundRemoved2" =>
        \A p \in MaskBool(mask) :
            ~(chain[Len(chain)][2][p].a # 0 /\ result[p].a = 0)

(* ========================== dilate_mask ================================ *)

\* The masks passed in: all 0 but for up to two pixels, the first a member or
\* just above the noise threshold, the second a member, just at the noise
\* threshold, or 0.
InputMasks ==
    {[p \in Pos |-> IF p = a THEN va ELSE IF p = b THEN vb ELSE 0] :
        a \in Pos, b \in Pos,
        va \in {Member, NoiseThreshold + 1}, vb \in {Member, NoiseThreshold, 0}}

InitDilate ==
    /\ d_mask \in InputMasks
    /\ d_iterations \in 0 .. MaxIter
    /\ d_result = d_mask
    /\ d_k = 0
    /\ d_pc = "loop"
    /\ IdleFrame /\ IdleShade /\ IdleBatch /\ IdlePar /\ IdleKey

\* One pass of `for _ in range(iterations)`.
DilatePass ==
    /\ d_pc = "loop"
    /\ d_k < d_iterations
    /\ d_result' = DilateOnce(d_result)
    /\ d_k' = d_k + 1
    /\ UNCHANGED <<d_mask, d_iterations, d_pc>>
    /\ UNCHANGED <<pvars, svars, gvars, cvars, kvars>>

\* return result
DilateReturn ==
    /\ d_pc = "loop"
    /\ d_k = d_iterations
    /\ d_pc' = "returned"
    /\ UNCHANGED <<d_mask, d_iterations, d_result, d_k>>
    /\ UNCHANGED <<pvars, svars, gvars, cvars, kvars>>

NextDilate == DilatePass \/ DilateReturn

SpecDilate == InitDilate /\ [][NextDilate]_vars

\* The pixels of the input that are above the noise threshold.
Seeds == {q \in Pos : d_mask[q] > NoiseThreshold}

\* C10 as stated: a pixel that is a member after k passes and was not above
\* the noise threshold in the input lies within city-block distance k of an
\* input pixel above the threshold.
C10_GrowthManhattan ==
    \A p \in Pos :
        d_result[p] = Member /\ d_mask[p] <= NoiseThreshold =>
            \E q \in Seeds : Manhattan(p, q) <= d_k

\* C10 amended: a pixel that is a member after k passes and was not above the
\* noise threshold in the input lies within chessboard (Chebyshev) distance k
\* of an input pixel above the threshold.
C10_GrowthChebyshev ==
    \A p \in Pos :
        d_result[p] = Member /\ d_mask[p] <= NoiseThreshold =>
            \E q \in Seeds : Chebyshev(p, q) <= d_k

\* A pixel added in the second pass or later, whose nearest seed is exactly
\* d_k away on the chessboard and further away by city blocks.
C10_Witness ==
    /\ d_k >= 2
    /\ \E p \in Pos :
          /\ d_result[p] = Member
          /\ d_mask[p] <= NoiseThreshold
          /\ \A q \in Seeds : Chebyshev(p, q) >= d_k /\ Manhattan(p, q) > d_k

\* C11: the members after k + 1 passes include the members after k passes: no
\* pass removes a member or lowers a value.
C11_Monotone ==
    [][\A p \in Pos :
          /\ d_result[p] = Member => d_result'[p] = Member
          /\ d_result'[p] >= d_result[p]]_vars

\* A pass has added a member to a mask that already had members, one of them
\* on the outermost ring, which no pass writes.
C11_Witness ==
    /\ d_k >= 2
    /\ \E p \in Pos : ~Interior(p) /\ d_mask[p] = Member /\ d_result[p] = Member
    /\ \E p \in Pos :
          /\ d_result[p] = Member
          /\ dilate_mask(d_mask, d_k - 1)[p] # Member

(* ====================== extract_shading_map ============================ *)

\* The masks passed in: members (255) on a block, a ring around it that is
\* just above (129) or just at (128) the membership threshold, 0 outside; and
\* the mask with no member.
ShadeMasks ==
    {[p \in Pos |-> IF InBlock(b, p) THEN Member ELSE IF InRing(b, p) THEN v ELSE 0] :
        b \in Blocks, v \in {MaskThreshold, MaskThreshold + 1}}
    \cup {[p \in Pos |-> 0]}

InitShade ==
    /\ s_img \in Frames
    /\ s_mask \in ShadeMasks
    /\ s_map = None
    /\ s_u8 = None
    /\ IdleFrame /\ IdleDilate /\ IdleBatch /\ IdlePar /\ IdleKey

\* shading_map = extract_shading_map(base_img, mask)
ExtractShading ==
    /\ s_map = None
    /\ s_map' = extract_shading_map(s_img, s_mask)
    /\ UNCHANGED <<s_img, s_mask, s_u8>>
    /\ UNCHANGED <<pvars, dvars, gvars, cvars, kvars>>

\* shading_uint8 = convert_shading_to_uint8(shading_map), as
\* prerender_frame_masks calls it on the map of extract_shading_map.
ConvertShading ==
    /\ s_map # None
    /\ s_u8 = None
    /\ \E wraps \in BOOLEAN : s_u8' = convert_shading_to_uint8(s_map, wraps)
    /\ UNCHANGED <<s_img, s_mask, s_map>>
    /\ UNCHANGED <<pvars, dvars, gvars, cvars, kvars>>

NextShade == ExtractShading \/ ConvertShading

SpecShade == InitShade /\ [][NextShade]_vars

\* C7: for a mask with at least one member, the shading map is within
\* [0.4, 1.0] at every pixel of the mask and exactly 1.0 at every pixel
\* outside it.
C7_ShadingRange ==
    s_map # None /\ MaskBool(s_mask) # {} =>
        \A p \in Pos :
            IF p \in MaskBool(s_mask)
            THEN FracLeq(ClipLow, s_map[p]) /\ FracLeq(s_map[p], One)
            ELSE s_map[p] = One

\* The inverse of the linear map of [0.4, 1.0] onto 102 .. 255:
\* 0.4 + (b - 102) * 0.6 / 153.
Decode(b) == Frac(2 * 153 + 3 * (b - ShadeFloor), 5 * 153)

\* C12: on the pixels of the mask, where the shading is within [0.4, 1.0], the
\* stored byte is within 102 .. 255, is 102 for 0.4 and 255 for 1.0, and
\* decoding it with the inverse linear map gives the shading back within one
\* quantisation step (0.6 / 153).
C12_LinearRoundTrip ==
    s_u8 # None =>
        \A p \in MaskBool(s_mask) :
            LET v == s_map[p]
                dec == Decode(s_u8[p])
            IN  /\ s_u8[p] \in ShadeFloor .. 255
                /\ v = ClipLow => s_u8[p] = ShadeFloor
                /\ v = One => s_u8[p] = 255
                /\ Abs(dec.n * v.d - v.n * dec.d) * 5 * 153 <= 3 * dec.d * v.d

(* ===================== generate_dancing_gif ============================ *)

FrameIndex == 1 .. NumFrames

\* temp_output = f"temp_frame_{i}.png", and process_frame's mask_output for it.
TempOutput(i) == <<"temp_frame", i, ".png">>

TempMask(i) == <<"temp_frame", i, "_mask.png">>

OutputGif == <<"output_gif_path">>

RemoveFile(fs, name) == [n \in DOMAIN fs \ {name} |-> fs[n]]

Range(seq) == {seq[k] : k \in 1 .. Len(seq)}

\* What process_frame does for each frame: "ok" (it returns), "load" (it raises
\* before it has written anything: the frame is no readable image), "late" (it
\* raises after mask.save: the texture is no image, or the result's save fails).
Outcomes == {"ok", "load", "late"}

InitBatch ==
    /\ g_pc = "process"
    /\ g_i = 1
    /\ g_bad \in [FrameIndex -> Outcomes]
    /\ g_processed = <<>>
    /\ g_files = NoFiles
    /\ IdleFrame /\ IdleDilate /\ IdleShade /\ IdlePar /\ IdleKey

\* frame_128 = process_frame(frame_file, texture_path, temp_output);
\* processed_frames.append(frame_128).  Nothing catches what process_frame
\* raises, so it ends generate_dancing_gif.
BatchProcess ==
    /\ g_pc = "process"
    /\ \/ /\ g_bad[g_i] = "ok"
          /\ g_files' = WriteFile(WriteFile(g_files, TempMask(g_i), <<"mask", g_i>>),
                                  TempOutput(g_i), <<"result", g_i>>)
          /\ g_processed' = Append(g_processed, g_i)
          /\ g_pc' = "cleanup"
       \/ /\ g_bad[g_i] = "load"
          /\ g_pc' = "raised"
          /\ UNCHANGED <<g_files, g_processed>>
       \/ /\ g_bad[g_i] = "late"
          /\ g_files' = WriteFile(g_files, TempMask(g_i), <<"mask", g_i>>)
          /\ g_pc' = "raised"
          /\ UNCHANGED g_processed
    /\ UNCHANGED <<g_i, g_bad>>
    /\ UNCHANGED <<pvars, dvars, svars, cvars, kvars>>

\* if os.path.exists(temp_output): os.remove(temp_output); then the next frame,
\* or the end of the loop.
BatchCleanup ==
    /\ g_pc = "cleanup"
    /\ g_files' = IF TempOutput(g_i) \in DOMAIN g_files
                  THEN RemoveFile(g_files, TempOutput(g_i)) ELSE g_files
    /\ IF g_i < NumFrames
       THEN g_i' = g_i + 1 /\ g_pc' = "process"
       ELSE g_i' = g_i /\ g_pc' = "save"
    /\ UNCHANGED <<g_bad, g_processed>>
    /\ UNCHANGED <<pvars, dvars, svars, cvars, kvars>>

\* processed_frames[0].save(output_gif_path, save_all=True, ...)
BatchSaveGif ==
    /\ g_pc = "save"
    /\ g_files' = WriteFile(g_files, OutputGif, g_processed)
    /\ g_pc' = "done"
    /\ UNCHANGED <<g_i, g_bad, g_processed>>
    /\ UNCHANGED <<pvars, dvars, svars, cvars, kvars>>

NextBatch == BatchProcess \/ BatchCleanup \/ BatchSaveGif

SpecBatch == InitBatch /\ [][NextBatch]_vars

\* C5: when process_frame has failed for frame i, every other frame of the six
\* is still processed and its output produced.
C5_OtherFramesProcessed ==
    g_pc = "raised" =>
        \A j \in FrameIndex \ {g_i} : j \in Range(g_processed)

(* ================ two concurrent runs of process_frame ================== *)

Runs == {1, 2}

Batches == {1, 2}

\* The two runs: frames of one batch (then different frames), or frames of two
\* batches running in the same working directory.
RunPairs ==
    {rp \in [Runs -> [batch : Batches, i : FrameIndex]] :
        /\ rp[1].batch = 1
        /\ rp[1].batch = rp[2].batch => rp[1].i # rp[2].i}

InitPar ==
    /\ \E rp \in RunPairs :
          c_run = [r \in Runs |-> [batch |-> rp[r].batch, i |-> rp[r].i, pc |-> "start"]]
    /\ c_files = NoFiles
    /\ c_touched = [r \in Runs |-> {}]
    /\ IdleFrame /\ IdleDilate /\ IdleShade /\ IdleBatch /\ IdleKey

ParStep(r, from, to) ==
    /\ c_run[r].pc = from
    /\ c_run' = [c_run EXCEPT ![r].pc = to]

ParTouch(r, name) == c_touched' = [c_touched EXCEPT ![r] = @ \cup {name}]

\* mask.save(mask_output)
ParSaveMask(r) ==
    /\ ParStep(r, "start", "mask_saved")
    /\ c_files' = WriteFile(c_files, TempMask(c_run[r].i), <<"mask", c_run[r].i>>)
    /\ ParTouch(r, TempMask(c_run[r].i))
    /\ UNCHANGED <<pvars, dvars, svars, gvars, kvars>>

\* result_128.save(output_path); the result depends on the batch's texture.
ParSaveResult(r) ==
    /\ ParStep(r, "mask_saved", "saved")
    /\ c_files' = WriteFile(c_files, TempOutput(c_run[r].i),
                            <<"result", c_run[r].i, c_run[r].batch>>)
    /\ ParTouch(r, TempOutput(c_run[r].i))
    /\ UNCHANGED <<pvars, dvars, svars, gvars, kvars>>

\* if os.path.exists(temp_output)
ParExists(r) ==
    /\ IF TempOutput(c_run[r].i) \in DOMAIN c_files
       THEN ParStep(r, "saved", "exists")
       ELSE ParStep(r, "saved", "done")
    /\ UNCHANGED <<c_files, c_touched>>
    /\ UNCHANGED <<pvars, dvars, svars, gvars, kvars>>

\* os.remove(temp_output): FileNotFoundError when the file is gone by now.
ParRemove(r) ==
    /\ IF TempOutput(c_run[r].i) \in DOMAIN c_files
       THEN /\ ParStep(r, "exists", "done")
            /\ c_files' = RemoveFile(c_files, TempOutput(c_run[r].i))
            /\ ParTouch(r, TempOutput(c_run[r].i))
       ELSE /\ ParStep(r, "exists", "raised")
            /\ UNCHANGED <<c_files, c_touched>>
    /\ UNCHANGED <<pvars, dvars, svars, gvars, kvars>>

NextPar ==
    \E r \in Runs : ParSaveMask(r) \/ ParSaveResult(r) \/ ParExists(r) \/ ParRemove(r)

SpecPar == InitPar /\ [][NextPar]_vars

\* What the working directory holds after the two runs, one after the other:
\* both mask files, no temp file.
SequentialFiles ==
    [n \in {TempMask(c_run[r].i) : r \in Runs} |-> <<"mask", n[2]>>]

\* C6: no file is written or deleted by both runs, no run fails, and when both
\* are done the working directory is what running them one after the other
\* leaves.
C6_ParallelSafe ==
    /\ c_touched[1] \cap c_touched[2] = {}
    /\ \A r \in Runs : c_run[r].pc # "raised"
    /\ (\A r \in Runs : c_run[r].pc = "done") => c_files = SequentialFiles

(* ============ the classifiers and remove_green_screen ================== *)

\* Channel values on both sides of every threshold and margin of the three
\* predicates, and values whose sum with 30 does not fit 8 bits.
KeyChannels == {0, 99, 100, 101, 121, 131, 139, 140, 150, 181, 240}

KeyAlphas == {128, 255}

KeyColours ==
    {Px(r, g, b, a) : r \in KeyChannels, g \in KeyChannels, b \in KeyChannels, a \in KeyAlphas}

\* A background with one pixel of colour c, and next to it one fill pixel and
\* one outline pixel.
KeyImage(c) ==
    [p \in Pos |->
        IF p = <<1, 1>> THEN c
        ELSE IF p = <<2, 2>> THEN FillColour
        ELSE IF p = <<2, 1>> THEN BorderColour
        ELSE BackgroundColour]

KeyImages == {KeyImage(c) : c \in KeyColours}

InitKey ==
    /\ k_src \in KeyImages
    /\ k_ops = <<>>
    /\ k_out = <<>>
    /\ k_fill = None
    /\ k_lines = None
    /\ IdleFrame /\ IdleDilate /\ IdleShade /\ IdleBatch /\ IdlePar

\* The image the next call of remove_green_screen is given.
KeyCurrent == IF k_out = <<>> THEN k_src ELSE k_out[Len(k_out)]

\* yellow_mask = create_yellow_mask(frame); black_lines = extract_black_lines(frame)
KeyClassify ==
    /\ k_fill = None
    /\ k_fill' = create_yellow_mask(k_src)
    /\ k_lines' = extract_black_lines(k_src)
    /\ UNCHANGED <<k_src, k_ops, k_out>>
    /\ UNCHANGED <<pvars, dvars, svars, gvars, cvars>>

\* img = remove_green_screen(img)
KeyStandard ==
    /\ Len(k_ops) < MaxPasses
    /\ k_out' = Append(k_out, remove_green_screen(KeyCurrent, FALSE))
    /\ k_ops' = Append(k_ops, FALSE)
    /\ UNCHANGED <<k_src, k_fill, k_lines>>
    /\ UNCHANGED <<pvars, dvars, svars, gvars, cvars>>

\* img = remove_green_screen(img, aggressive=True)
KeyAggressive ==
    /\ Len(k_ops) < MaxPasses
    /\ k_out' = Append(k_out, remove_green_screen(KeyCurrent, TRUE))
    /\ k_ops' = Append(k_ops, TRUE)
    /\ UNCHANGED <<k_src, k_fill, k_lines>>
    /\ UNCHANGED <<pvars, dvars, svars, gvars, cvars>>

NextKey == KeyClassify \/ KeyStandard \/ KeyAggressive

SpecKey == InitKey /\ [][NextKey]_vars

\* C14: a standard call sets alpha to 0 on exactly the pixels with g > 100,
\* g > r + 30, g > b + 30 and r < 100, the sums taken without 8-bit wrap-around
\* (so the background (22, 187, 0) is keyed out); it leaves the RGB of every
\* pixel and the alpha of every other pixel as they were.
C14_StandardKey ==
    k_ops # <<>> /\ k_ops[1] = FALSE =>
        \A p \in Pos :
            LET px == k_src[p]
                out == k_out[1][p]
            IN  /\ Rgb(out) = Rgb(px)
                /\ out.a = IF /\ px.g > 100
                               /\ px.g > px.r + 30
                               /\ px.g > px.b + 30
                               /\ px.r < 100
                            THEN 0 ELSE px.a
                /\ Rgb(px) = <<22, 187, 0>> => out.a = 0

\* A standard call that keyed the background out and kept the half-transparent
\* alpha of a green pixel whose b + 30 does not fit 8 bits.
C14_Witness ==
    /\ k_ops # <<>> /\ k_ops[1] = FALSE
    /\ \E p \in Pos : Rgb(k_src[p]) = <<22, 187, 0>> /\ k_src[p].a = 255 /\ k_out[1][p].a = 0
    /\ \E p \in Pos :
          /\ k_src[p].b + 30 > 255
          /\ k_src[p].g > (k_src[p].b + 30) % 256
          /\ k_src[p].g > k_src[p].r + 30
          /\ k_src[p].g > 100 /\ k_src[p].r < 100
          /\ k_src[p].a = 128
          /\ k_out[1][p] = k_src[p]

\* The pixels the fill thresholds pick, before dilation.
RawFill == {p \in Pos : IsYellow(k_src[p])}

\* The pixels the first call keyed out, when it was a standard call.
KeyedStandard ==
    {p \in Pos : k_ops # <<>> /\ k_ops[1] = FALSE /\ k_src[p].a # 0 /\ k_out[1][p].a = 0}

\* C18: a pixel that meets the fill thresholds is neither in the outline mask
\* nor keyed out by a standard call; a pixel of the dilated fill mask that is
\* in the outline mask or keyed out is one that dilation added, within
\* 4 steps of a pixel that meets the fill thresholds.
C18_ClassesExclusive ==
    k_fill # None =>
        \A p \in Pos :
            /\ p \in RawFill => k_lines[p] # Member /\ p \notin KeyedStandard
            /\ k_fill[p] = Member /\ (k_lines[p] = Member \/ p \in KeyedStandard) =>
                  /\ p \notin RawFill
                  /\ \E q \in RawFill : Chebyshev(p, q) <= YellowIterations

\* An image classified and keyed whose varying pixel meets the fill
\* thresholds, with outline and keyed-out pixels inside the dilated fill mask.
C18_Witness ==
    /\ k_fill # None
    /\ k_ops # <<>> /\ k_ops[1] = FALSE
    /\ <<1, 1>> \in RawFill
    /\ k_src[<<1, 1>>].r = 181 /\ k_src[<<1, 1>>].g = 121
    /\ \E p \in Pos : k_fill[p] = Member /\ k_lines[p] = Member
    /\ \E p \in KeyedStandard : k_fill[p] = Member

\* C19: every pixel a standard call keys out, an aggressive call keys out, so
\* a standard call followed by an aggressive call gives what one aggressive
\* call on the source gives; and two calls in the same mode give what one
\* gives.
C19_AggressiveSubsumes ==
    /\ \A p \in Pos : IsGreenStandard(k_src[p]) => IsGreenAggressive(k_src[p])
    /\ Len(k_ops) >= 2 /\ k_ops[1] = FALSE /\ k_ops[2] = TRUE =>
           k_out[2] = remove_green_screen(k_src, TRUE)
    /\ Len(k_ops) >= 2 /\ k_ops[1] = k_ops[2] => k_out[2] = k_out[1]

\* A standard call that keyed out some pixels, followed by an aggressive call
\* that keyed out one more, which the standard predicate does not match.
C19_Witness ==
    /\ Len(k_ops) >= 2 /\ k_ops[1] = FALSE /\ k_ops[2] = TRUE
    /\ k_out[1] # k_src
    /\ k_out[2] # k_out[1]
    /\ \E p \in Pos : ~IsGreenStandard(k_src[p]) /\ k_out[2][p].a = 0

====
